---- MODULE Spec2Model ----
(***************************************************************************)
(* Model of the CanvasSlider React component (src/src/CanvasSlider.tsx).   *)
(*                                                                         *)
(* The component keeps two pieces of React state (loadedImages,            *)
(* isDragging), three refs (startXRef, scrollRef, animationFrame) and      *)
(* three effects: the image preload, the resize effect and the drag        *)
(* effect.  Event handlers are closures created by an effect run, so they  *)
(* see the loadedImages / isDragging values of the render that registered  *)
(* them; the refs are shared by all closures.                              *)
(*                                                                         *)
(* One action is one task of the browser's event loop.  setIsDragging is   *)
(* called inside a discrete event (mousedown, mouseup): React renders,     *)
(* commits and runs the effects of that update before the next event is    *)
(* dispatched, so the handler and the effect runs it causes are one        *)
(* action.  setLoadedImages is called from a promise continuation of       *)
(* img.onload, outside any discrete event: the call only enqueues the      *)
(* update (queued), React renders and commits it in a later task (Render)  *)
(* and runs the passive effects of that commit in a task after that        *)
(* (RunEffects); events may arrive in between and reach the listeners of   *)
(* the previous effect run.  Before any render React first runs the        *)
(* passive effects that are still outstanding; a setIsDragging call with   *)
(* the value already committed causes such a render too.  The removal of   *)
(* the component is committed by the host: made in a discrete event the    *)
(* cleanups of the effects run in the same task, made otherwise (a timer,  *)
(* a fetch, a transition) they run in a later task (RunCleanups), and in   *)
(* between the listeners are still registered on a detached canvas.        *)
(*                                                                         *)
(* Spec is the mounted component over small image lists, widths and        *)
(* pointer positions; SpecTeardown adds the unmount; SpecFrames adds weak  *)
(* fairness of the frame tick; SpecLoads is the preload on its own, with   *)
(* the order in which the loads complete observed; SpecApp is the          *)
(* component as App.tsx mounts it (four images, 640 wide) once the images  *)
(* have loaded; SpecFit takes drawImageFit on its own over all small image *)
(* and canvas sizes.                                                       *)
(***************************************************************************)
EXTENDS Integers, Sequences, FiniteSets

\* ---------------------------------------------------------------- bounds
MaxX == 1            \* pointer X positions are 0..MaxX
MaxRequests == 2     \* loadImages invocations (the mount's plus image list changes)
MaxRedraws == 2      \* redraws since the last frame tick are counted up to this many
MaxDim == 3          \* image and canvas sides are 1..MaxDim

Xs == 0..MaxX
Widths == {1, 2}     \* logical viewport widths (slideWidth > 0)
\* the image lists the host may pass as the images prop
Lists == { <<>>, <<"a">>, <<"b", "a">> }

VARIABLES
  mounted,        \* the component is mounted (canvasRef.current is the canvas)
  cleanedUp,      \* the component was removed and the cleanups of its effects have run
  images,         \* the images prop
  requests,       \* every loadImages invocation so far, oldest first
  queued,         \* setLoadedImages updates React has not rendered yet (the last call's array)
  loadedImages,   \* React state
  isDragging,     \* React state
  startXRef,      \* ref: last recorded pointer X
  scrollRef,      \* ref: total horizontal scroll
  animationFrame, \* ref: the id of the requested frame, or Null
  frames,         \* requestAnimationFrame callbacks not yet run
  width,          \* canvas.getBoundingClientRect().width of the canvas in the document
  listeners,      \* registered event listeners, by event type
  lastDraw,       \* what the most recent drawCurrentImages call did
  redraws,        \* drawCurrentImages calls since the last frame tick (at most MaxRedraws are counted)
  reordered,      \* SpecLoads only: some source loaded before an earlier source of its request
  threw,          \* a callback raised a TypeError
  fit             \* a drawImageFit call taken on its own: its arguments and its rectangle

vars == << mounted, cleanedUp, images, requests, queued, loadedImages, isDragging, startXRef, scrollRef,
           animationFrame, frames, width, listeners, lastDraw, redraws,
           reordered, threw, fit >>

\* animationFrame.current: null, or the handle requestAnimationFrame returned
Null == "null"
FrameHandle == "handle"

Max(a, b) == IF a >= b THEN a ELSE b
Min(a, b) == IF a <= b THEN a ELSE b

\* one more drawCurrentImages call counted
Counted(k) == Min(k + 1, MaxRedraws)

\* ------------------------------------------------------------ image fitter
\* JavaScript numbers as exact fractions n/d with d > 0
Frac(n, d) == [n |-> n, d |-> d]
FromInt(k) == Frac(k, 1)
FDiv(a, b) == Frac(a.n * b.d, a.d * b.n)
FMul(a, b) == Frac(a.n * b.n, a.d * b.d)
FAdd(a, b) == Frac(a.n * b.d + b.n * a.d, a.d * b.d)
FSub(a, b) == Frac(a.n * b.d - b.n * a.d, a.d * b.d)
FGt(a, b) == a.n * b.d > b.n * a.d
FEq(a, b) == a.n * b.d = b.n * a.d
FLe(a, b) == a.n * b.d <= b.n * a.d

\* faulty variant of DrawImageFit: the comparison of the ratios is reversed, so the
\* image covers the rectangle instead of fitting into it
DrawImageFitCover(img, xOffset, canvasWidth, canvasHeight) ==
  LET imgRatio == FDiv(FromInt(img.width), FromInt(img.height))
      canvasRatio == FDiv(FromInt(canvasWidth), FromInt(canvasHeight))
      cw == FromInt(canvasWidth)
      ch == FromInt(canvasHeight)
      two == FromInt(2)
  IN  IF FGt(canvasRatio, imgRatio)
      THEN [x |-> FAdd(FromInt(0), FromInt(xOffset)),
            y |-> FDiv(FSub(ch, FDiv(cw, imgRatio)), two),
            width |-> cw,
            height |-> FDiv(cw, imgRatio)]
      ELSE [x |-> FAdd(FDiv(FSub(cw, FMul(ch, imgRatio)), two), FromInt(xOffset)),
            y |-> FromInt(0),
            width |-> FMul(ch, imgRatio),
            height |-> ch]

\* drawImageFit: the rectangle (x, y, width, height) passed to ctx.drawImage
\* for an image of size img.width x img.height, a slot at xOffset and a canvas
\* of canvasWidth x canvasHeight
DrawImageFit(img, xOffset, canvasWidth, canvasHeight) ==
  LET imgRatio == FDiv(FromInt(img.width), FromInt(img.height))
      canvasRatio == FDiv(FromInt(canvasWidth), FromInt(canvasHeight))
      cw == FromInt(canvasWidth)
      ch == FromInt(canvasHeight)
      two == FromInt(2)
  IN  IF FGt(imgRatio, canvasRatio)
      THEN \* image is wider than canvas: fit width
           LET drawWidth == cw
               drawHeight == FDiv(cw, imgRatio)
               drawX == FromInt(0)
               drawY == FDiv(FSub(ch, drawHeight), two)
           IN  [x |-> FAdd(drawX, FromInt(xOffset)), y |-> drawY,
                width |-> drawWidth, height |-> drawHeight]
      ELSE \* image is taller than canvas: fit height
           LET drawHeight == ch
               drawWidth == FMul(ch, imgRatio)
               drawX == FDiv(FSub(cw, drawWidth), two)
               drawY == FromInt(0)
           IN  [x |-> FAdd(drawX, FromInt(xOffset)), y |-> drawY,
                width |-> drawWidth, height |-> drawHeight]

\* no drawImageFit call is looked at
NoFit == [img |-> [width |-> 1, height |-> 1], xOffset |-> 0,
          canvasWidth |-> 1, canvasHeight |-> 1, called |-> FALSE,
          rect |-> [x |-> FromInt(0), y |-> FromInt(0),
                    width |-> FromInt(0), height |-> FromInt(0)]]

\* ------------------------------------------------------------ render loop
\* arr[k] of a JavaScript array (0-based): the element, or nothing when k is
\* out of range (undefined); the result is a sequence of zero or one element
At(arr, k) == IF k >= 0 /\ k < Len(arr) THEN << arr[k + 1] >> ELSE << >>

SlideIndex(scroll, w) == scroll \div w

\* faulty variant of SubOffset: the distance left to the next slide boundary
SubOffsetToBoundary(scroll, w) == (w - (scroll % w)) % w

SubOffset(scroll, w) == scroll % w

\* one drawImageFit call: the image and the xOffset it is painted at
Painted(imgOpt, xOffset) ==
  IF imgOpt = << >> THEN << >> ELSE << [img |-> imgOpt[1], x |-> xOffset] >>

\* drawCurrentImages as built by the render whose loadedImages is imgs, run
\* with the given scroll offset and viewport width: the drawImageFit calls made
DrawCurrentImages(imgs, scroll, w) ==
  LET slideIndex == SlideIndex(scroll, w)
      offset == SubOffset(scroll, w)
      current == At(imgs, slideIndex)
      next == At(imgs, slideIndex + 1)
  IN  Painted(current, 0 - offset) \o Painted(next, w - offset)

\* no drawCurrentImages call has run yet
NoDraw == [by |-> "none", n |-> 0, index |-> 0, scroll |-> 0, width |-> 0, items |-> << >>]

\* the record of one drawCurrentImages call: its caller (resizeCanvas or the
\* animation frame callback), the number of images its closure holds, the
\* scroll offset and width it read, the slide index it derived and the
\* drawImageFit calls it made
DrawRecord(by, imgs, scroll, w) ==
  [by |-> by, n |-> Len(imgs), index |-> SlideIndex(scroll, w), scroll |-> scroll, width |-> w,
   items |-> DrawCurrentImages(imgs, scroll, w)]

\* --------------------------------------------------------- image preloader
\* a slot of Promise.all's result array that no load has filled yet
Hole == [req |-> 0, src |-> "-"]

\* the Image element created for source i of request r
NewImage(r, list, i) == [req |-> r, src |-> list[i]]

\* loadImages() on list: one load per source issued, none settled, the joint
\* promise pending; Promise.all of an empty list is fulfilled at once, with an
\* empty array.  remaining is Promise.all's count of sources not yet resolved
NewRequest(list) ==
  [images |-> list,
   status |-> [i \in 1..Len(list) |-> "pending"],
   values |-> [i \in 1..Len(list) |-> Hole],
   remaining |-> Len(list),
   outcome |-> IF Len(list) = 0 THEN "fulfilled" ELSE "pending"]

\* the update queue of loadedImages after loadImages() was called on list:
\* for an empty list loadImages resumes in the microtasks of the same task and
\* calls setLoadedImages([]); React will apply the queued calls in order, so
\* the queue stands for the array of the last one
QueueAfterRequest(q, list) == IF Len(list) = 0 THEN << << >> >> ELSE q

\* faulty variant of StoreValue: the value is pushed in completion order
StoreInArrivalOrder(req, i, img) ==
  [req EXCEPT !.values[Len(req.images) - req.remaining + 1] = img,
              !.remaining = @ - 1]

\* Promise.all's resolve-element step for source i: the value is stored at
\* index i of the result array, whatever the order of completion
StoreValue(req, i, img) ==
  [req EXCEPT !.values[i] = img,
              !.remaining = @ - 1]

\* faulty variant of Reject: onerror resolves with the broken image instead of rejecting
RejectAsLoaded(req, r, i) ==
  [req EXCEPT !.status[i] = "failed",
              !.values[i] = [req |-> r, src |-> req.images[i]],
              !.remaining = @ - 1]

\* img.onerror of source i of request r: its promise rejects, and so does the
\* joint promise if it is still pending (Promise.all surfaces the first failure)
Reject(req, r, i) ==
  [req EXCEPT !.status[i] = "failed",
              !.outcome = IF @ = "pending" THEN "rejected" ELSE @]

\* img.onload of source i of request r: its promise resolves with the image
Resolve(req, r, i) ==
  StoreValue([req EXCEPT !.status[i] = "loaded"], i, NewImage(r, req.images, i))

\* the joint promise settles as fulfilled when every source has resolved
Fulfils(req) == req.outcome = "pending" /\ req.remaining = 0

\* the value loadImages passes to setLoadedImages once the joint promise is
\* fulfilled
LoadedOf(req) == req.values

\* ------------------------------------------------------ effects and commit
MoveClosure(drag, imgs) == [isDragging |-> drag, loadedImages |-> imgs]
ResizeClosure(imgs) == [loadedImages |-> imgs]

RECURSIVE Remove(_, _)
\* removeEventListener: the first registration of closure c is dropped
Remove(ls, c) ==
  IF ls = << >> THEN << >>
  ELSE IF Head(ls) = c THEN Tail(ls)
  ELSE << Head(ls) >> \o Remove(Tail(ls), c)

\* the drag effect's cleanup followed by its re-run, for a render that had
\* (oldDrag, oldImgs) and a commit of (drag, imgs)
DragEffect(ls, oldDrag, oldImgs, drag, imgs) ==
  [ls EXCEPT
     !.mousedown = Append(Remove(@, "handleMouseDown"), "handleMouseDown"),
     !.mousemove = Append(Remove(@, MoveClosure(oldDrag, oldImgs)), MoveClosure(drag, imgs)),
     !.mouseup = Append(Remove(@, "handleMouseUp"), "handleMouseUp")]

\* faulty variant of ResizeEffect: the cleanup does not remove the listener of the
\* previous run
ResizeEffectNoCleanup(ls, oldImgs, imgs) ==
  [ls EXCEPT !.resize = IF Len(imgs) = 0 THEN @ ELSE Append(@, ResizeClosure(imgs))]

\* the resize effect's cleanup followed by its re-run: with no image loaded
\* the effect returns before registering anything
ResizeEffect(ls, oldImgs, imgs) ==
  LET cleaned == IF Len(oldImgs) = 0 THEN ls.resize
                 ELSE Remove(ls.resize, ResizeClosure(oldImgs))
  IN  [ls EXCEPT !.resize = IF Len(imgs) = 0 THEN cleaned
                            ELSE Append(cleaned, ResizeClosure(imgs))]

\* faulty variant of Cleanup: the drag effect's cleanup leaves the window's
\* mousemove listener registered
CleanupLeavesMove(ls, drag, imgs) ==
  [mousedown |-> Remove(ls.mousedown, "handleMouseDown"),
   mousemove |-> ls.mousemove,
   mouseup |-> Remove(ls.mouseup, "handleMouseUp"),
   resize |-> IF Len(imgs) = 0 THEN ls.resize ELSE Remove(ls.resize, ResizeClosure(imgs))]

\* the cleanups run at unmount
Cleanup(ls, drag, imgs) ==
  [mousedown |-> Remove(ls.mousedown, "handleMouseDown"),
   mousemove |-> Remove(ls.mousemove, MoveClosure(drag, imgs)),
   mouseup |-> Remove(ls.mouseup, "handleMouseUp"),
   resize |-> IF Len(imgs) = 0 THEN ls.resize ELSE Remove(ls.resize, ResizeClosure(imgs))]

\* ---------------------------------------------------------- drag handlers
\* faulty variant of NewScroll: the lower clamp is missing
NewScrollNoFloor(scroll, dx, n, w) == Min(scroll - dx, (n - 1) * w)

\* line 140-141: the proposed offset clamped to [0, maxScroll]
NewScroll(scroll, dx, n, w) ==
  LET maxScroll == (n - 1) * w
  IN  Max(0, Min(scroll - dx, maxScroll))

\* faulty variant of ScheduleFrame: a frame is requested without looking at
\* animationFrame
ScheduleFrameAlways(st, cl) ==
  [st EXCEPT !.animationFrame = FrameHandle,
             !.frames = Append(@, [loadedImages |-> cl.loadedImages])]

\* lines 144-149: a frame is requested only when none is outstanding; the
\* callback keeps the drawCurrentImages of the closure that requested it
ScheduleFrame(st, cl) ==
  IF st.animationFrame = Null
  THEN [st EXCEPT !.animationFrame = FrameHandle,
                  !.frames = Append(@, [loadedImages |-> cl.loadedImages])]
  ELSE st

\* faulty variant of HandleMouseMove: every applied move requests its own frame
HandleMouseMoveUnbatched(cl, x, w, st) ==
  IF ~cl.isDragging \/ Len(cl.loadedImages) = 0 THEN st
  ELSE [st EXCEPT !.startXRef = x,
                  !.scrollRef = NewScroll(@, x - st.startXRef, Len(cl.loadedImages), w),
                  !.applied = TRUE,
                  !.animationFrame = FrameHandle,
                  !.frames = Append(@, [loadedImages |-> cl.loadedImages])]

\* faulty variant of HandleMouseMove: startXRef keeps the pointer-down X, so every
\* delta is taken against the start of the drag
HandleMouseMoveFromDragStart(cl, x, w, st) ==
  IF ~cl.isDragging \/ Len(cl.loadedImages) = 0 THEN st
  ELSE ScheduleFrame([st EXCEPT !.scrollRef = NewScroll(@, x - st.startXRef,
                                                       Len(cl.loadedImages), w),
                                !.applied = TRUE], cl)

\* handleMouseMove of closure cl for clientX = x, on the refs in st
HandleMouseMove(cl, x, w, st) ==
  IF ~cl.isDragging \/ Len(cl.loadedImages) = 0 THEN st
  ELSE LET dx == x - st.startXRef
           moved == [st EXCEPT !.startXRef = x,
                               !.scrollRef = NewScroll(@, dx, Len(cl.loadedImages), w),
                               !.applied = TRUE]
       IN  ScheduleFrame(moved, cl)

RECURSIVE DispatchMove(_, _, _, _)
\* a mousemove event delivered to every registered mousemove listener
DispatchMove(ls, x, w, st) ==
  IF ls = << >> THEN st
  ELSE DispatchMove(Tail(ls), x, w, HandleMouseMove(Head(ls), x, w, st))

RECURSIVE DispatchResize(_, _, _, _, _)
\* a resize event delivered to every registered resizeCanvas: each redraws at
\* once with the drawCurrentImages of its closure.  With the component removed
\* canvasRef.current is null and drawCurrentImages throws at line 63 before
\* it draws
DispatchResize(ls, isMounted, scroll, w, st) ==
  IF ls = << >> THEN st
  ELSE DispatchResize(Tail(ls), isMounted, scroll, w,
         IF isMounted
         THEN [st EXCEPT !.lastDraw = DrawRecord("resize", Head(ls).loadedImages, scroll, w),
                         !.redraws = Counted(@)]
         ELSE [st EXCEPT !.threw = TRUE])

RECURSIVE RunFramesStaleOffset(_, _, _, _, _)
\* faulty variant of RunFrames: the callback paints the offset that was painted
\* last instead of reading scrollRef when it runs
RunFramesStaleOffset(fs, isMounted, scroll, w, st) ==
  IF fs = << >> THEN st
  ELSE RunFramesStaleOffset(Tail(fs), isMounted, scroll, w,
         IF isMounted
         THEN [st EXCEPT !.lastDraw = DrawRecord("frame", Head(fs).loadedImages,
                                                 st.lastDraw.scroll, w),
                         !.animationFrame = Null,
                         !.ran = Counted(@)]
         ELSE [st EXCEPT !.threw = TRUE])

RECURSIVE RunFramesDetached(_, _, _, _, _)
\* faulty variant of RunFrames: the callback draws through the context it captured
\* whether or not the canvas is still mounted
RunFramesDetached(fs, isMounted, scroll, w, st) ==
  IF fs = << >> THEN st
  ELSE RunFramesDetached(Tail(fs), isMounted, scroll, w,
         [st EXCEPT !.lastDraw = DrawRecord("frame", Head(fs).loadedImages, scroll, w),
                    !.animationFrame = Null,
                    !.ran = Counted(@)])

RECURSIVE RunFramesMarkerLeftSet(_, _, _, _, _)
\* faulty variant of RunFrames: the callback draws but does not reset animationFrame
RunFramesMarkerLeftSet(fs, isMounted, scroll, w, st) ==
  IF fs = << >> THEN st
  ELSE RunFramesMarkerLeftSet(Tail(fs), isMounted, scroll, w,
         IF isMounted
         THEN [st EXCEPT !.lastDraw = DrawRecord("frame", Head(fs).loadedImages, scroll, w),
                         !.ran = Counted(@)]
         ELSE [st EXCEPT !.threw = TRUE])

RECURSIVE RunFrames(_, _, _, _, _)
\* the frame tick runs every requested callback: it draws, then clears
\* animationFrame.  With the component unmounted canvasRef.current is null and
\* the callback throws at line 63, before it draws or clears anything
RunFrames(fs, isMounted, scroll, w, st) ==
  IF fs = << >> THEN st
  ELSE RunFrames(Tail(fs), isMounted, scroll, w,
         IF isMounted
         THEN [st EXCEPT !.lastDraw = DrawRecord("frame", Head(fs).loadedImages, scroll, w),
                         !.animationFrame = Null,
                         !.ran = Counted(@)]
         ELSE [st EXCEPT !.threw = TRUE])

\* ------------------------------------------------------------------ state
\* after the first render and its effects: the preload of the images prop is
\* issued, no image is loaded, the resize effect returned early and the drag
\* effect registered its three listeners
Init ==
  /\ mounted = TRUE
  /\ cleanedUp = FALSE
  /\ images \in Lists
  /\ requests = << NewRequest(images) >>
  /\ queued = QueueAfterRequest(<< >>, images)
  /\ loadedImages = << >>
  /\ isDragging = FALSE
  /\ startXRef = 0
  /\ scrollRef = 0
  /\ animationFrame = Null
  /\ frames = << >>
  /\ width \in Widths
  /\ listeners = [mousedown |-> << "handleMouseDown" >>,
                  mousemove |-> << MoveClosure(FALSE, << >>) >>,
                  mouseup |-> << "handleMouseUp" >>,
                  resize |-> << >>]
  /\ lastDraw = NoDraw
  /\ redraws = 0
  /\ reordered = FALSE
  /\ threw = FALSE
  /\ fit = NoFit

\* the loadedImages of the render whose effects ran last: the array the
\* registered handlers close over
EffectImages ==
  IF listeners.mousemove = << >> THEN loadedImages
  ELSE Head(listeners.mousemove).loadedImages

\* a commit of loadedImages whose passive effects have not run yet
EffectsPending == mounted /\ EffectImages /= loadedImages

\* the listeners and the canvas once the outstanding passive effects have run:
\* loadedImages is a new array, so the resize effect and the drag effect are
\* cleaned up and run again; the resize effect calls resizeCanvas() once when
\* an image is loaded
Flushed ==
  IF ~EffectsPending
  THEN [listeners |-> listeners, lastDraw |-> lastDraw, redraws |-> redraws]
  ELSE [listeners |-> DragEffect(ResizeEffect(listeners, EffectImages, loadedImages),
                                 isDragging, EffectImages, isDragging, loadedImages),
        lastDraw |-> IF Len(loadedImages) = 0 THEN lastDraw
                     ELSE DrawRecord("resize", loadedImages, scrollRef, width),
        redraws |-> IF Len(loadedImages) = 0 THEN redraws ELSE Counted(redraws)]

\* React runs the outstanding passive effects before it starts a render
FlushPassiveEffects ==
  LET f == Flushed
  IN  /\ listeners' = f.listeners
      /\ lastDraw' = f.lastDraw
      /\ redraws' = f.redraws

\* setLoadedImages(loaded): the update is enqueued for a later render, behind
\* any update still queued, which it will override.  A state update of an
\* unmounted component is dropped
SetLoadedImages(loaded) ==
  queued' = IF mounted THEN << loaded >> ELSE queued

\* the joint promise of request r after one of its loads settled: when it is
\* fulfilled loadImages resumes and calls setLoadedImages
Settle(r, req) ==
  IF Fulfils(req)
  THEN /\ requests' = [requests EXCEPT ![r] = [req EXCEPT !.outcome = "fulfilled"]]
       /\ SetLoadedImages(LoadedOf(req))
  ELSE /\ requests' = [requests EXCEPT ![r] = req]
       /\ UNCHANGED queued

\* the host renders the slider with a new images array (React compares the
\* array by reference, so a new array with the same sources counts): the
\* preload effect runs loadImages() again; nothing else is reset
SetImages(list) ==
  /\ mounted
  /\ Len(requests) < MaxRequests
  /\ images' = list
  /\ requests' = Append(requests, NewRequest(list))
  /\ queued' = QueueAfterRequest(queued, list)
  /\ FlushPassiveEffects
  /\ UNCHANGED << mounted, cleanedUp, loadedImages, isDragging, startXRef, scrollRef, animationFrame,
                  frames, width, reordered, threw, fit >>

\* the host renders the slider with another backgroundColor: drawCurrentImages
\* is created anew, so the resize effect and the drag effect are cleaned up
\* and run again with the same state, and the resize effect redraws at once
\* through resizeCanvas() when an image is loaded.  The colour itself is not
\* part of the state: a draw is recorded by the images it paints and where
SetBackgroundColor ==
  /\ mounted
  /\ LET f == Flushed
     IN  /\ listeners' = f.listeners
         /\ IF Len(loadedImages) = 0
            THEN lastDraw' = f.lastDraw /\ redraws' = f.redraws
            ELSE /\ lastDraw' = DrawRecord("resize", loadedImages, scrollRef, width)
                 /\ redraws' = Counted(f.redraws)
  /\ UNCHANGED << mounted, cleanedUp, images, requests, queued, loadedImages, isDragging, startXRef,
                  scrollRef, animationFrame, frames, width, reordered, threw, fit >>

\* img.onload of source i of request r: its promise resolves and the joint
\* promise settles
OnLoad(r, i) ==
  /\ requests[r].status[i] = "pending"
  /\ Settle(r, Resolve(requests[r], r, i))
  /\ UNCHANGED << mounted, cleanedUp, images, loadedImages, isDragging, startXRef, scrollRef,
                  animationFrame, frames, width, listeners, lastDraw, redraws,
                  threw, fit >>

\* img.onload of source i of request r, the order of completion not observed
ImageLoad(r, i) == OnLoad(r, i) /\ UNCHANGED reordered

\* img.onload of source i of request r, with the order of completion observed:
\* it is noted when an earlier source of the request has not resolved yet
ImageLoadObserved(r, i) ==
  /\ OnLoad(r, i)
  /\ reordered' = (reordered \/ \E j \in 1..(i - 1) : requests[r].values[j] = Hole)

\* img.onerror of source i of request r: the joint promise rejects if it is
\* still pending, loadImages never resumes
ImageError(r, i) ==
  /\ requests[r].status[i] = "pending"
  /\ Settle(r, Reject(requests[r], r, i))
  /\ UNCHANGED << mounted, cleanedUp, images, loadedImages, isDragging, startXRef, scrollRef,
                  animationFrame, frames, width, listeners, lastDraw, redraws,
                  reordered, threw, fit >>

\* React renders and commits the queued setLoadedImages update, in a task of
\* its scheduler: loadedImages becomes the queued array; the effects of this
\* commit are left for RunEffects
Render ==
  /\ mounted
  /\ queued /= << >>
  /\ loadedImages' = queued[1]
  /\ queued' = << >>
  /\ FlushPassiveEffects
  /\ UNCHANGED << mounted, cleanedUp, images, requests, isDragging, startXRef, scrollRef,
                  animationFrame, frames, width, reordered, threw, fit >>

\* React runs the passive effects of the last commit of loadedImages
RunEffects ==
  /\ EffectsPending
  /\ FlushPassiveEffects
  /\ UNCHANGED << mounted, cleanedUp, images, requests, queued, loadedImages, isDragging, startXRef,
                  scrollRef, animationFrame, frames, width, reordered, threw, fit >>

\* faulty variant of SetIsDragging: the drag effect does not depend on isDragging, so
\* the handlers registered before the update stay
SetIsDraggingStaleHandlers(drag) ==
  /\ isDragging' = drag
  /\ UNCHANGED << listeners, lastDraw, redraws >>

\* setIsDragging(drag) and the render it causes, all within the mouse event:
\* React first runs the passive effects that are still outstanding, also when
\* drag is the value already committed (the render then changes nothing
\* more); when the value changes the drag effect is cleaned up and run again
\* with the new closure.  A state update of a removed component is dropped
SetIsDragging(drag) ==
  /\ isDragging' = IF mounted THEN drag ELSE isDragging
  /\ IF ~mounted
     THEN UNCHANGED << listeners, lastDraw, redraws >>
     ELSE LET f == Flushed
          IN  /\ listeners' = IF drag = isDragging THEN f.listeners
                              ELSE DragEffect(f.listeners, isDragging, loadedImages,
                                              drag, loadedImages)
              /\ lastDraw' = f.lastDraw
              /\ redraws' = f.redraws

\* mousedown on the canvas at clientX = x
MouseDown(x) ==
  /\ UNCHANGED << reordered, mounted, cleanedUp, images, requests, queued, loadedImages, scrollRef,
                  animationFrame, frames, width, threw, fit >>
  /\ IF listeners.mousedown /= << >>
     THEN startXRef' = x /\ SetIsDragging(TRUE)
     ELSE UNCHANGED << isDragging, listeners, lastDraw, redraws, startXRef >>

\* canvas.getBoundingClientRect().width as the handlers read it: a canvas that
\* is no longer in the document has an empty rectangle
RectWidth == IF mounted THEN width ELSE 0

\* mousemove anywhere in the window at clientX = x
MouseMove(x) ==
  /\ UNCHANGED << mounted, cleanedUp, images, requests, queued, loadedImages, isDragging, width,
                  listeners, lastDraw, redraws, reordered, threw, fit >>
  /\ \E st \in { DispatchMove(listeners.mousemove, x, RectWidth,
                               [startXRef |-> startXRef, scrollRef |-> scrollRef,
                                animationFrame |-> animationFrame, frames |-> frames,
                                applied |-> FALSE]) } :
       /\ startXRef' = st.startXRef
       /\ scrollRef' = st.scrollRef
       /\ animationFrame' = st.animationFrame
       /\ frames' = st.frames

\* faulty variant of MouseUp: the end of the drag resets the recorded pointer X
MouseUpResetsLastX ==
  /\ UNCHANGED << reordered, mounted, cleanedUp, images, requests, queued, loadedImages, scrollRef,
                  animationFrame, frames, width, threw, fit >>
  /\ IF listeners.mouseup /= << >>
     THEN SetIsDragging(FALSE) /\ startXRef' = 0
     ELSE UNCHANGED << isDragging, listeners, lastDraw, redraws, startXRef >>

\* mouseup anywhere in the window
MouseUp ==
  /\ UNCHANGED << reordered, mounted, cleanedUp, images, requests, queued, loadedImages, startXRef,
                  scrollRef, animationFrame, frames, width, threw, fit >>
  /\ IF listeners.mouseup /= << >>
     THEN SetIsDragging(FALSE)
     ELSE UNCHANGED << isDragging, listeners, lastDraw, redraws >>

\* the window is resized and the canvas, while it is in the document, is laid
\* out w wide; the resize event reaches the registered resizeCanvas listeners
Resize(w) ==
  /\ width' = IF mounted THEN w ELSE width
  /\ LET st == DispatchResize(listeners.resize, mounted, scrollRef, w,
                              [lastDraw |-> lastDraw, redraws |-> redraws, threw |-> threw])
     IN  lastDraw' = st.lastDraw /\ redraws' = st.redraws /\ threw' = st.threw
  /\ UNCHANGED << mounted, cleanedUp, images, requests, queued, loadedImages, isDragging,
                  startXRef, scrollRef, animationFrame, frames, listeners, reordered, fit >>

\* a display frame tick: the requested animation frame callbacks run
FrameTick ==
  LET st == RunFrames(frames, mounted, scrollRef, width,
                      [lastDraw |-> lastDraw, animationFrame |-> animationFrame,
                       ran |-> 0, threw |-> threw])
  IN  /\ frames' = << >>
      /\ lastDraw' = st.lastDraw
      /\ animationFrame' = st.animationFrame
      /\ redraws' = st.ran
      /\ threw' = st.threw
      /\ UNCHANGED << mounted, cleanedUp, images, requests, queued, loadedImages, isDragging,
                      startXRef, scrollRef, width, listeners, reordered, fit >>

\* the host removes the component: React runs the outstanding passive effects
\* and commits the removal; canvasRef.current becomes null and the queued
\* update is dropped; refs, requested frames and loads in flight are left
\* alone.  When the removal is made in a discrete event (sync) the cleanups of
\* the effects run in the same task; otherwise they are left for RunCleanups
\* and the listeners stay registered meanwhile
Unmount(sync) ==
  /\ mounted
  /\ mounted' = FALSE
  /\ cleanedUp' = sync
  /\ queued' = << >>
  /\ LET f == Flushed
     IN  /\ listeners' = IF sync THEN Cleanup(f.listeners, isDragging, loadedImages)
                         ELSE f.listeners
         /\ lastDraw' = f.lastDraw
         /\ redraws' = f.redraws
  /\ UNCHANGED << images, requests, loadedImages, isDragging, startXRef, scrollRef,
                  animationFrame, frames, width, reordered, threw, fit >>

\* React runs the cleanups of the effects of the removed component (lines 120
\* and 159-164), in a task after the commit of the removal
RunCleanups ==
  /\ ~mounted /\ ~cleanedUp
  /\ cleanedUp' = TRUE
  /\ listeners' = Cleanup(listeners, isDragging, loadedImages)
  /\ UNCHANGED << mounted, images, requests, queued, loadedImages, isDragging, startXRef,
                  scrollRef, animationFrame, frames, width, lastDraw, redraws, reordered,
                  threw, fit >>

Next ==
  \/ \E list \in Lists : SetImages(list)
  \/ \E r \in 1..Len(requests) : \E i \in 1..Len(requests[r].images) : ImageLoad(r, i)
  \/ \E r \in 1..Len(requests) : \E i \in 1..Len(requests[r].images) : ImageError(r, i)
  \/ Render
  \/ RunEffects
  \/ SetBackgroundColor
  \/ \E x \in Xs : MouseDown(x)
  \/ \E x \in Xs : MouseMove(x)
  \/ MouseUp
  \/ \E w \in Widths : Resize(w)
  \/ FrameTick

\* the component while it stays mounted
Spec == Init /\ [][Next]_vars

\* the component while it stays mounted, with a display that keeps delivering
\* frame ticks: a requested animation frame callback is eventually run
SpecFrames == Init /\ [][Next]_vars /\ WF_vars(FrameTick)

\* the component's whole life, teardown included
NextTeardown ==
  \/ Next
  \/ \E sync \in BOOLEAN : Unmount(sync)
  \/ RunCleanups

SpecTeardown == Init /\ [][NextTeardown]_vars

\* the preload taken on its own, with the order of completion observed: list
\* changes, the loads settling in any order, and React's renders and effect
\* runs
NextLoads ==
  \/ \E list \in Lists : SetImages(list)
  \/ \E r \in 1..Len(requests) : \E i \in 1..Len(requests[r].images) : ImageLoadObserved(r, i)
  \/ \E r \in 1..Len(requests) : \E i \in 1..Len(requests[r].images) : ImageError(r, i)
  \/ Render
  \/ RunEffects

SpecLoads == Init /\ [][NextLoads]_vars

\* ------------------------------------------------- the slider as App uses it
\* App.tsx mounts the slider with four images in a container 640px wide
AppImages == << "/images/0.jpg", "/images/1.jpg", "/images/2.jpg", "/images/3.jpg" >>
AppWidth == 640
\* pointer X positions of the drags
AppXs == { 0, 60, 700 }

\* the four images, loaded by the mount's request
AppLoaded == [i \in 1..Len(AppImages) |-> NewImage(1, AppImages, i)]

\* the state once the four images have loaded in order and the commit of
\* setLoadedImages has run the effects: resizeCanvas is registered and has
\* drawn once at offset 0
InitApp ==
  /\ mounted = TRUE
  /\ cleanedUp = FALSE
  /\ images = AppImages
  /\ requests = << [NewRequest(AppImages) EXCEPT
                      !.status = [i \in 1..Len(AppImages) |-> "loaded"],
                      !.values = AppLoaded,
                      !.remaining = 0,
                      !.outcome = "fulfilled"] >>
  /\ queued = << >>
  /\ loadedImages = AppLoaded
  /\ isDragging = FALSE
  /\ startXRef = 0
  /\ scrollRef = 0
  /\ animationFrame = Null
  /\ frames = << >>
  /\ width = AppWidth
  /\ listeners = [mousedown |-> << "handleMouseDown" >>,
                  mousemove |-> << MoveClosure(FALSE, AppLoaded) >>,
                  mouseup |-> << "handleMouseUp" >>,
                  resize |-> << ResizeClosure(AppLoaded) >>]
  /\ lastDraw = DrawRecord("resize", AppLoaded, 0, AppWidth)
  /\ redraws = Counted(0)
  /\ reordered = FALSE
  /\ threw = FALSE
  /\ fit = NoFit

NextApp ==
  \/ \E x \in AppXs : MouseDown(x)
  \/ \E x \in AppXs : MouseMove(x)
  \/ MouseUp
  \/ Resize(AppWidth)
  \/ FrameTick

SpecApp == InitApp /\ [][NextApp]_vars

\* ------------------------------------------------ drawImageFit on its own
Dims == 1..MaxDim
\* the slot of the current slide and of the next one, for a sub-offset of 1
FitOffsets == { 0 - 1, 0 }

\* one drawImageFit call about to be made, for any image size, slot and canvas
\* size; the component around it has just mounted with an empty list
InitFit ==
  /\ fit \in { [NoFit EXCEPT !.img = [width |-> iw, height |-> ih], !.xOffset = xo,
                              !.canvasWidth = cw, !.canvasHeight = ch] :
                  iw \in Dims, ih \in Dims, xo \in FitOffsets, cw \in Dims, ch \in Dims }
  /\ mounted = TRUE
  /\ cleanedUp = FALSE
  /\ images = << >>
  /\ requests = << NewRequest(<< >>) >>
  /\ queued = QueueAfterRequest(<< >>, << >>)
  /\ loadedImages = << >>
  /\ isDragging = FALSE
  /\ startXRef = 0
  /\ scrollRef = 0
  /\ animationFrame = Null
  /\ frames = << >>
  /\ width = 1
  /\ listeners = [mousedown |-> << "handleMouseDown" >>,
                  mousemove |-> << MoveClosure(FALSE, << >>) >>,
                  mouseup |-> << "handleMouseUp" >>,
                  resize |-> << >>]
  /\ lastDraw = NoDraw
  /\ redraws = 0
  /\ reordered = FALSE
  /\ threw = FALSE

\* the drawImageFit call computes its rectangle
FitCall ==
  /\ ~fit.called
  /\ fit' = [fit EXCEPT !.called = TRUE,
                        !.rect = DrawImageFit(fit.img, fit.xOffset,
                                              fit.canvasWidth, fit.canvasHeight)]
  /\ UNCHANGED << mounted, cleanedUp, images, requests, queued, loadedImages, isDragging, startXRef,
                  scrollRef, animationFrame, frames, width, listeners, lastDraw,
                  redraws, reordered, threw >>

NextFit == FitCall

SpecFit == InitFit /\ [][NextFit]_vars

\* ----------------------------------------------------------------- claims
N == Len(loadedImages)
\* maxScroll of line 140 for the committed image count: the width is the one
\* the canvas's rectangle has, 0 once the canvas is removed
MaxScroll == (N - 1) * RectWidth
InRange == scrollRef >= 0 /\ scrollRef <= MaxScroll

\* the image count the registered handlers work with (loadedImages.length in
\* handleMouseMove): N, except between a commit of loadedImages and the run
\* of its effects, when the handlers of the previous effect run are still the
\* registered ones
HandlerN == Len(EffectImages)
\* maxScroll of line 140 as the registered handler computes it
HandlerMaxScroll == (HandlerN - 1) * RectWidth

\* a step in which drawCurrentImages ran
Redrew == redraws' > redraws \/ lastDraw' /= lastDraw \/ (frames /= << >> /\ frames' = << >> /\ mounted)

\* C1: with N >= 1 images loaded and the handlers registered for them (the
\* image count is not in the middle of a change, the listeners have not been
\* released), a pointer-down, pointer-move or pointer-up leaves the scroll
\* offset in [0, (N-1)*slideWidth] if it was there, an applied pointer-move
\* puts it there from any value, and a pointer-move to the right of the last X
\* at offset 0 leaves the offset at 0; slideWidth is the width of the canvas's
\* rectangle, so on a removed canvas whose listeners are still registered the
\* range is [0, 0]
C1_DragKeepsOffsetInRange ==
  [][(~cleanedUp /\ N >= 1 /\ HandlerN = N) =>
       /\ \A x \in Xs :
            \/ /\ (InRange \/ isDragging) => InRange'
               /\ (scrollRef = 0 /\ x >= startXRef) => scrollRef' = 0
            \/ ~MouseMove(x)
       /\ \/ InRange => InRange'
          \/ ~(MouseUp \/ \E x \in Xs : MouseDown(x))
    ]_vars

\* C1 witness: in a drag over two loaded images a move to the right end of
\* the pointer range was applied after a frame painted offset 0 (its redraw is
\* pending), and the offset is 0
C1_Witness ==
  /\ mounted /\ isDragging /\ N >= 2 /\ HandlerN = N
  /\ frames /= << >> /\ lastDraw.by = "frame" /\ lastDraw.scroll = 0
  /\ scrollRef = 0 /\ startXRef = MaxX

\* C2: the scroll offset is never negative and never exceeds (N-1)*slideWidth
\* for the current loaded image count N >= 1 and the current viewport width
C2_OffsetAlwaysInRange == N >= 1 => InRange

\* C3: every redraw made with N >= 1 images derives a slide index in [0, N-1],
\* draws the current slide, and draws a next slide only when index + 1 < N
C3_RedrawIndexInBounds ==
  (lastDraw.by /= "none" /\ lastDraw.n >= 1) =>
     /\ lastDraw.index >= 0 /\ lastDraw.index <= lastDraw.n - 1
     /\ Len(lastDraw.items) >= 1
     /\ Len(lastDraw.items) = 2 => lastDraw.index + 1 < lastDraw.n

\* C4: the result of a superseded load is never applied: every commit of a
\* loaded set holds images of the newest request only
C4_StaleLoadNeverApplied ==
  [][loadedImages' /= loadedImages =>
       \A k \in 1..Len(loadedImages') : loadedImages'[k].req = Len(requests')]_vars

\* C5: a committed loaded set has one asset per source of its request, asset i
\* being the image of source i, whatever the order the loads completed in
C5_LoadedInInputOrder ==
  N >= 1 =>
    LET r == loadedImages[1].req
    IN  /\ r \in 1..Len(requests)
        /\ N = Len(requests[r].images)
        /\ \A i \in 1..N : loadedImages[i] = [req |-> r, src |-> requests[r].images[i]]

\* C5 witness: a committed set of two images whose second source loaded first
C5_Witness ==
  /\ N >= 2 /\ HandlerN = N
  /\ Len(requests) = 1
  /\ reordered

\* C6: no image of a request with a failed source is ever committed, and while
\* no request has been fulfilled no image is loaded and nothing has been drawn
C6_FailedLoadCommitsNothing ==
  /\ \A r \in 1..Len(requests) :
       (\E i \in 1..Len(requests[r].images) : requests[r].status[i] = "failed") =>
          \A k \in 1..N : loadedImages[k].req /= r
  /\ (\A r \in 1..Len(requests) : requests[r].outcome /= "fulfilled") =>
       (loadedImages = << >> /\ lastDraw = NoDraw)

\* C6 witness: a request of two sources whose first loaded and whose second
\* failed; nothing is loaded or drawn
C6_Witness ==
  /\ Len(requests) = 1
  /\ Len(requests[1].images) = 2
  /\ requests[1].status[1] = "loaded" /\ requests[1].status[2] = "failed"
  /\ loadedImages = << >> /\ lastDraw = NoDraw

\* C7: once the images prop has changed, no redraw paints an image of a
\* previous list: every redraw paints images of the newest request only
C7_NoStaleRedraw ==
  [][Redrew =>
       \A k \in 1..Len(lastDraw'.items) : lastDraw'.items[k].img.req = Len(requests')]_vars

\* C8: at most one redraw request is outstanding at any time
C8_OneOutstandingFrame == Len(frames) <= 1

\* C8 witness: one request is outstanding although the offset moved further
\* than a single pointer-move can since the last redraw, so a later move found
\* the request pending
C8_Witness ==
  /\ mounted /\ Len(frames) = 1
  /\ lastDraw.by /= "none"
  /\ scrollRef > lastDraw.scroll + MaxX

\* C9: at most one redraw executes between two consecutive frame ticks
C9_OneRedrawPerTick == redraws <= 1

\* C9 as amended: a frame tick executes at most one scheduled redraw, however
\* many pointer-moves preceded it
C9_OneScheduledRedrawPerTick ==
  [][(frames /= << >> /\ frames' = << >>) => redraws' <= 1]_vars

\* C9 witness: a frame tick has just run one redraw that caught up with an
\* offset two pointer-moves away from the redraw before it
C9_Witness ==
  /\ mounted /\ redraws = 1 /\ frames = << >> /\ animationFrame = Null
  /\ lastDraw.by = "frame" /\ lastDraw.scroll = scrollRef /\ scrollRef > MaxX

\* C10: a step that is a pointer-down ends in Dragging, one that is a
\* pointer-up ends in Idle, every pointer-move while Dragging is applied (offset
\* clamped, last X recorded) and every pointer-move while Idle changes neither
\* offset nor pending redraw
C10_DragStateMachine ==
  [][mounted =>
       /\ isDragging' \/ ~(\E x \in Xs : MouseDown(x))
       /\ ~isDragging' \/ ~MouseUp
       /\ \A x \in Xs :
            \/ IF isDragging
               THEN scrollRef' = NewScroll(scrollRef, x - startXRef, N, width) /\ startXRef' = x
               ELSE UNCHANGED << scrollRef, startXRef, animationFrame, frames >>
            \/ ~MouseMove(x)
    ]_vars

\* C10 as amended: as C10, but a pointer-move while Dragging is applied only
\* when the registered handler holds at least one loaded image; with none it
\* is ignored
C10_DragStateMachineLoaded ==
  [][mounted =>
       /\ isDragging' \/ ~(\E x \in Xs : MouseDown(x))
       /\ ~isDragging' \/ ~MouseUp
       /\ \A x \in Xs :
            \/ IF isDragging /\ HandlerN >= 1
               THEN /\ scrollRef' = NewScroll(scrollRef, x - startXRef, HandlerN, width)
                    /\ startXRef' = x
                    /\ animationFrame' = FrameHandle
               ELSE UNCHANGED << scrollRef, startXRef, animationFrame, frames >>
            \/ ~MouseMove(x)
    ]_vars

\* C10 witness: a drag moved the offset and ended: the controller is Idle
\* again while the redraw requested by a move of the drag is still pending
C10_Witness ==
  /\ mounted /\ ~isDragging /\ N >= 1 /\ HandlerN = N
  /\ frames /= << >> /\ scrollRef > 0

\* C11: a redraw at offset o with width w and N images draws slide floor(o/w)
\* at x = -(o mod w) and, exactly when slide floor(o/w) + 1 exists, draws it at
\* x = w - (o mod w); at w = 640, N = 4, o = 700 it draws slide 1 at -60 and
\* slide 2 at 580, and at the final slide with sub-offset 0 it draws one image
C11_SlidesDrawnAtOffsets ==
  LET o == lastDraw.scroll
      w == lastDraw.width
      i == o \div w
      sub == o - i * w
      items == lastDraw.items
  IN  /\ i < N
      /\ Len(items) >= 1
      /\ items[1] = [img |-> loadedImages[i + 1], x |-> 0 - sub]
      /\ (i + 1 < N) <=> (Len(items) = 2)
      /\ (Len(items) = 2) => items[2] = [img |-> loadedImages[i + 2], x |-> w - sub]
      /\ (o = 700 /\ w = 640 /\ N = 4) =>
            items = << [img |-> [req |-> 1, src |-> "/images/1.jpg"], x |-> 0 - 60],
                       [img |-> [req |-> 1, src |-> "/images/2.jpg"], x |-> 580] >>
      /\ (sub = 0 /\ i = N - 1) => Len(items) = 1 /\ items[1].x = 0

\* C11 witness: a frame redraw ran after a drag of 700 to the left from
\* offset 0 and drew two slides
C11_Witness ==
  /\ lastDraw.by = "frame" /\ lastDraw.scroll = 700 /\ lastDraw.width = AppWidth
  /\ scrollRef = 700 /\ startXRef = 0 /\ Len(lastDraw.items) = 2

C13_NothingDrawnWhileEmpty ==
  [][(N = 0 /\ Len(loadedImages') = 0) =>
       /\ ~Redrew
       /\ Len(frames') <= Len(frames)
       /\ animationFrame' = animationFrame
       /\ ~threw'
    ]_vars

\* a step that is the delivery of a pointer or resize event
PointerOrResize ==
  \/ \E x \in Xs : MouseDown(x)
  \/ \E x \in Xs : MouseMove(x)
  \/ MouseUp
  \/ \E w \in Widths : Resize(w)

\* after teardown no pointer or resize event changes the offset, the drag
\* state, the last X, or requests or performs a redraw
InertAfterTeardown ==
  \/ mounted
  \/ UNCHANGED << scrollRef, isDragging, startXRef, animationFrame, frames, lastDraw, redraws >>
  \/ ~PointerOrResize

\* C14: while mounted exactly one registration of each of the four listeners
\* (mousedown, mousemove, mouseup, resize) is active, after teardown none is
\* left, and no later pointer or resize event has any effect
C14_OneOfEachListenerThenNone ==
  [][/\ mounted' => /\ Len(listeners'.mousedown) = 1
                    /\ Len(listeners'.mousemove) = 1
                    /\ Len(listeners'.mouseup) = 1
                    /\ Len(listeners'.resize) = 1
     /\ ~mounted' => listeners' = [mousedown |-> << >>, mousemove |-> << >>,
                                    mouseup |-> << >>, resize |-> << >>]
     /\ InertAfterTeardown
    ]_vars

\* once the cleanups of the teardown have run no pointer or resize event
\* changes the offset, the drag state, the last X, or requests or performs a
\* redraw, or raises an error
InertAfterCleanups ==
  \/ ~cleanedUp
  \/ UNCHANGED << scrollRef, isDragging, startXRef, animationFrame, frames, lastDraw,
                  redraws, threw >>
  \/ ~PointerOrResize

\* C14 as amended: until the cleanups of the teardown have run exactly one
\* registration of each pointer listener is active, and the resize listener is
\* registered only while the effects last ran with at least one image loaded
\* (one registration then, none otherwise); once the cleanups have run, in the
\* step of the removal or in a later one, no listener is left and no later
\* pointer or resize event has any effect
C14_ListenersReleasedAtTeardown ==
  [][/\ ~cleanedUp' => /\ Len(listeners'.mousedown) = 1
                       /\ Len(listeners'.mousemove) = 1
                       /\ Len(listeners'.mouseup) = 1
                       /\ Len(listeners'.resize) = IF HandlerN' >= 1 THEN 1 ELSE 0
     /\ cleanedUp' => /\ ~mounted'
                      /\ listeners' = [mousedown |-> << >>, mousemove |-> << >>,
                                        mouseup |-> << >>, resize |-> << >>]
     /\ InertAfterCleanups
    ]_vars

\* C14 witness: the component was removed in the middle of a drag over two
\* loaded images with a moved offset, a resize event reached the resizeCanvas
\* that was still registered on the detached canvas (an error was raised with
\* no frame requested), and the cleanups have run since: no listener is left
C14_Witness ==
  /\ cleanedUp /\ isDragging /\ N >= 2 /\ scrollRef > 0
  /\ threw /\ animationFrame = Null
  /\ listeners = [mousedown |-> << >>, mousemove |-> << >>, mouseup |-> << >>,
                  resize |-> << >>]

\* the rectangle of the drawImageFit call looked at, relative to its slot
FitLeft == FSub(fit.rect.x, FromInt(fit.xOffset))
FitRight == FAdd(FitLeft, fit.rect.width)
FitTop == fit.rect.y
FitBottom == FAdd(fit.rect.y, fit.rect.height)
FitContained ==
  /\ FLe(FromInt(0), FitLeft) /\ FLe(FitRight, FromInt(fit.canvasWidth))
  /\ FLe(FromInt(0), FitTop) /\ FLe(FitBottom, FromInt(fit.canvasHeight))
FitTouchesX == FEq(FitLeft, FromInt(0)) /\ FEq(FitRight, FromInt(fit.canvasWidth))
FitTouchesY == FEq(FitTop, FromInt(0)) /\ FEq(FitBottom, FromInt(fit.canvasHeight))
FitCentredX == FEq(FitLeft, FSub(FromInt(fit.canvasWidth), FitRight))
FitCentredY == FEq(FitTop, FSub(FromInt(fit.canvasHeight), FitBottom))
FitKeepsRatio ==
  FEq(FMul(fit.rect.width, FromInt(fit.img.height)),
      FMul(fit.rect.height, FromInt(fit.img.width)))
FitSameRatio == fit.img.width * fit.canvasHeight = fit.canvasWidth * fit.img.height

\* C15: the rectangle drawImageFit computes lies inside the target rectangle,
\* touches both edges on exactly one axis, is centred on the other axis and
\* has the image's aspect ratio
C15_FitTouchesExactlyOneAxis ==
  fit.called =>
    /\ FitContained
    /\ FitTouchesX /= FitTouchesY
    /\ FitTouchesX => FitCentredY
    /\ FitTouchesY => FitCentredX
    /\ FitKeepsRatio

\* C15 as amended: the rectangle lies inside the target rectangle, touches
\* both edges on at least one axis (on both exactly when image and target have
\* the same aspect ratio), is centred on both axes and has the image's aspect
\* ratio
C15_FitContainedCentred ==
  fit.called =>
    /\ FitContained
    /\ FitTouchesX \/ FitTouchesY
    /\ (FitTouchesX /\ FitTouchesY) <=> FitSameRatio
    /\ FitCentredX /\ FitCentredY
    /\ FitKeepsRatio
    /\ FGt(fit.rect.width, FromInt(0)) /\ FGt(fit.rect.height, FromInt(0))

\* C15 witness: a wide image was fitted into the slot of the current slide
\* at sub-offset 1 with bars above and below it
C15_Witness ==
  /\ fit.called /\ fit.xOffset = 0 - 1
  /\ fit.img.width > fit.img.height /\ fit.canvasWidth < fit.canvasHeight
  /\ FitTouchesX /\ FGt(FitTop, FromInt(0))

\* C16: when the pending redraw request fires it makes one redraw, with the
\* scroll offset and the width current at that moment, whatever the offset was
\* when the request was made and however many pointer-moves came in between
C16_FramePaintsCurrentOffset ==
  [][(mounted /\ frames /= << >> /\ frames' = << >>) =>
       /\ redraws' = 1
       /\ lastDraw'.by = "frame"
       /\ lastDraw'.scroll = scrollRef /\ scrollRef' = scrollRef
       /\ lastDraw'.width = width
       /\ animationFrame' = Null
    ]_vars

\* C16 witness: a drag over two loaded images reached the far end of the
\* strip, two pointer-moves away from offset 0, and the frame that fired last
\* painted that offset
C16_Witness ==
  /\ mounted /\ isDragging /\ N = 2 /\ width = 2 * MaxX
  /\ frames = << >> /\ animationFrame = Null
  /\ lastDraw.by = "frame" /\ lastDraw.scroll = scrollRef /\ scrollRef = MaxScroll

\* the offset a pointer-move to x proposes, and its clamp to [0, (N-1)*width]
\* for the N of the handler
Proposed(x) == scrollRef - (x - startXRef)
Clamped(v) == IF v < 0 THEN 0 ELSE IF v > HandlerMaxScroll THEN HandlerMaxScroll ELSE v
HandlerInRange == scrollRef >= 0 /\ scrollRef <= HandlerMaxScroll

\* the clamp of v to [0, (N-1)*width] for the committed image count N
ClampedToCommitted(v) == IF v < 0 THEN 0 ELSE IF v > MaxScroll THEN MaxScroll ELSE v

\* C17: a pointer-move to X while Dragging with N >= 1 images loaded sets the
\* offset to clamp(offset - (X - lastX), 0, (N-1)*width) and lastX to X; a
\* pointer-down at X sets lastX to X; so from an offset within range a move to
\* the left never lowers the offset and raises it by lastX - X when that fits,
\* and a move to the right never raises it and lowers it by X - lastX when
\* that fits
C17_MoveAppliesClampedDeltaCommitted ==
  [][~cleanedUp =>
       /\ \A x \in Xs :
            \/ /\ scrollRef' = ClampedToCommitted(Proposed(x))
               /\ startXRef' = x
               /\ (InRange /\ x < startXRef) =>
                     /\ scrollRef' >= scrollRef
                     /\ Proposed(x) <= MaxScroll =>
                           scrollRef' = scrollRef + (startXRef - x)
               /\ (InRange /\ x > startXRef) =>
                     /\ scrollRef' <= scrollRef
                     /\ Proposed(x) >= 0 => scrollRef' = scrollRef - (x - startXRef)
            \/ ~(isDragging /\ N >= 1 /\ MouseMove(x))
       /\ \A x \in Xs : startXRef' = x \/ ~MouseDown(x)
    ]_vars

\* C17 as amended: as C17, for the image count the registered move handler
\* holds and the width the canvas's rectangle has when the move arrives: until
\* the listeners are released, a pointer-move to X while Dragging that reaches
\* a handler holding n >= 1 images sets the offset to
\* clamp(offset - (X - lastX), 0, (n-1)*width) and lastX to X, also on a
\* removed canvas, where the width is 0 and the offset becomes 0; a move that
\* reaches a handler holding no image changes neither the offset nor lastX
C17_MoveAppliesClampedDelta ==
  [][~cleanedUp =>
       /\ \A x \in Xs :
            \/ /\ scrollRef' = Clamped(Proposed(x))
               /\ startXRef' = x
               /\ (HandlerInRange /\ x < startXRef) =>
                     /\ scrollRef' >= scrollRef
                     /\ Proposed(x) <= HandlerMaxScroll =>
                           scrollRef' = scrollRef + (startXRef - x)
               /\ (HandlerInRange /\ x > startXRef) =>
                     /\ scrollRef' <= scrollRef
                     /\ Proposed(x) >= 0 => scrollRef' = scrollRef - (x - startXRef)
            \/ ~(isDragging /\ HandlerN >= 1 /\ MouseMove(x))
       /\ \A x \in Xs :
            \/ scrollRef' = scrollRef /\ startXRef' = startXRef
            \/ ~(HandlerN = 0 /\ MouseMove(x))
       /\ \A x \in Xs : startXRef' = x \/ ~MouseDown(x)
    ]_vars

\* C17 witness: over two loaded images a drag went left and then right: a
\* frame painted offset 2, then a move to the right end of the pointer range
\* lowered the offset to 1 and its redraw is pending
C17_Witness ==
  /\ mounted /\ isDragging /\ N = 2 /\ HandlerN = N /\ InRange
  /\ lastDraw.by = "frame" /\ lastDraw.scroll = 2
  /\ startXRef = MaxX /\ scrollRef = 1
  /\ animationFrame = FrameHandle /\ frames /= << >>

\* C18: the scroll offset changes only in a step that is a pointer-move
\* handled while Dragging by a handler that holds images: pointer-down,
\* pointer-up, resize, load completion or failure, render and effect runs,
\* prop changes and frame ticks leave it unchanged; pointer-up also leaves
\* the last recorded pointer X unchanged
C18_OnlyDragMoveChangesOffset ==
  [][/\ \/ scrollRef' = scrollRef
        \/ mounted /\ isDragging /\ HandlerN >= 1 /\ \E x \in Xs : MouseMove(x)
     /\ \/ startXRef' = startXRef /\ scrollRef' = scrollRef
        \/ ~MouseUp
    ]_vars

\* C18 witness: a drag moved the offset and ended with the pointer at a
\* non-zero X; after the pointer-up a resize redrew at the offset the drag left
C18_Witness ==
  /\ mounted /\ ~isDragging /\ N >= 2 /\ HandlerN = N
  /\ scrollRef > 0 /\ startXRef > 0
  /\ lastDraw.by = "resize" /\ lastDraw.scroll = scrollRef /\ frames = << >>

\* C19: after teardown no step performs a draw: a frame callback that was
\* pending at teardown runs without drawing
C19_NoDrawAfterTeardown ==
  [][~mounted =>
       /\ lastDraw' = lastDraw
       /\ redraws' = redraws \/ redraws' = 0
       /\ (frames /= << >> /\ frames' = << >>) => redraws' = 0
    ]_vars

\* C19 witness: the component was torn down with a redraw request pending at
\* an offset not yet painted; the callback has run since and the last draw is
\* still the one made before
C19_Witness ==
  /\ ~mounted /\ threw /\ frames = << >> /\ animationFrame = FrameHandle
  /\ lastDraw.by /= "none" /\ lastDraw.scroll /= scrollRef

\* C20: while mounted, a step that changes the scroll offset leaves a redraw
\* request pending; the pending-redraw marker is set exactly while a request is
\* outstanding; the step that runs a pending request makes a frame redraw of
\* the current offset and clears the marker; and, frame ticks being delivered,
\* no request stays pending for ever
C20_MoveEventuallyPainted ==
  /\ [][scrollRef' /= scrollRef => frames' /= << >>]_vars
  /\ [](animationFrame = FrameHandle <=> frames /= << >>)
  /\ [][(frames /= << >> /\ frames' = << >>) =>
          /\ lastDraw'.by = "frame" /\ lastDraw'.scroll = scrollRef'
          /\ animationFrame' = Null]_vars
  /\ []<>(frames = << >>)

\* C20 witness: after a frame redraw a further pointer-move changed the
\* offset and requested a frame again, which is pending
C20_Witness ==
  /\ mounted /\ isDragging
  /\ lastDraw.by = "frame" /\ lastDraw.scroll > 0 /\ scrollRef < lastDraw.scroll
  /\ animationFrame = FrameHandle /\ Len(frames) = 1

====
